---- MODULE Spec2Model ----
(***************************************************************************)
(* Loved Homes API (src/main.py): property records and hierarchical        *)
(* checklist items kept in a document store, with the recursive cascade    *)
(* delete of an item and the bulk cascade delete of a property.            *)
(*                                                                         *)
(* ObjectIds are the integers 1..NumIds, None is 0.  Identifiers on the    *)
(* wire are strings, modelled as pairs <<kind, n>>: a 24-digit hex string  *)
(* in lower case (<<"hex", n>>) or upper case (<<"HEX", n>>), the empty    *)
(* string, a string that is no ObjectId, or an absent optional value.      *)
(***************************************************************************)
EXTENDS Integers, Sequences, FiniteSets, TLC

\* ---------------------------------------------------------------- bounds
NumIds == 3
NumTitles == 2
MaxClock == 1

Ids == 1 .. NumIds
NoneId == 0
Titles == 1 .. NumTitles
Names == {"home", "cabin"}
Photos == {"data:image/png"}
Clock == 0 .. MaxClock
\* the interpreter's recursion limit, counted in delete_children frames and scaled
\* to the model: one frame more than a chain of items without a cycle can need
MaxDepth == NumIds + 1
Slots == {1, 2}

\* ------------------------------------------------------- identifier codec
Absent == <<"none", 0>>
EmptyStr == <<"empty", 0>>
Junk == <<"junk", 0>>
\* every id in lower case, and the first also in upper case
HexStrings == {<<"hex", i>> : i \in Ids} \cup {<<"HEX", 1>>}
\* a path parameter is a non-empty string
PathStrings == HexStrings \cup {Junk}
\* an optional string of a query or a body
OptStrings == HexStrings \cup {Junk, EmptyStr, Absent}

\* ObjectId.is_valid(v) for a string: 24 hexadecimal digits of either case
IsValid(w) == w[1] \in {"hex", "HEX"}
\* ObjectId(v)
ToObjectId(w) == w[2]
\* str(oid): lower-case hexadecimal
Str(oid) == <<"hex", oid>>
\* Python truthiness of an Optional[str]
Truthy(w) == w # Absent /\ w # EmptyStr

VARIABLES
    props,   \* db["property"]: _id -> document
    items,   \* db["checklistitem"]: _id -> document
    nextId,  \* the next _id the driver draws
    now,     \* the clock
    del,     \* the delete_item requests in progress, by slot
    resp,    \* the latest response
    last,    \* the delete or list_items request, if it was served last
    made,    \* the create_item requests served since the last delete, where they are followed
    done     \* the delete_item requests that ended while another was running
vars == <<props, items, nextId, now, del, resp, last, made, done>>

\* -------------------------------------------------------- document store
\* an Optional value is the empty set (None) or a singleton
None == {}
Some(v) == {v}
Opt(S) == {None} \cup {Some(v) : v \in S}

Restrict(f, S) == [x \in S |-> f[x]]
\* collection.insert_one(doc), the driver having drawn _id = oid
InsertOne(coll, oid, doc) == [x \in DOMAIN coll \cup {oid} |-> IF x = oid THEN doc ELSE coll[x]]
\* collection.delete_one({"_id": oid})
DeleteOne(coll, oid) == Restrict(coll, DOMAIN coll \ {oid})
\* mutant: only the root items of the property are deleted
DeleteRootsByProperty(coll, pid) ==
    Restrict(coll, {x \in DOMAIN coll : ~(coll[x].property_id = pid /\ coll[x].parent_id = NoneId)})
\* collection.delete_many({"property_id": pid})
DeleteManyByProperty(coll, pid) == Restrict(coll, {x \in DOMAIN coll : coll[x].property_id # pid})
\* collection.find(flt): the _ids of the documents matching the filter
FindByParent(coll, par) == {x \in DOMAIN coll : coll[x].parent_id = par}
\* mutant: the filter has no parent_id
FindItemsOfProperty(coll, pid, par) == {x \in DOMAIN coll : coll[x].property_id = pid}
FindItems(coll, pid, par) == {x \in DOMAIN coll : coll[x].property_id = pid /\ coll[x].parent_id = par}

\* serialize_doc of a checklist item
SerializeItem(coll, x) ==
    [id |-> Str(x),
     property_id |-> Str(coll[x].property_id),
     parent_id |-> IF coll[x].parent_id = NoneId THEN Absent ELSE Str(coll[x].parent_id),
     title |-> coll[x].title, is_folder |-> coll[x].is_folder,
     created_at |-> coll[x].created_at, updated_at |-> coll[x].updated_at]
\* serialize_doc of a property
SerializeProperty(coll, x) ==
    [id |-> Str(x), name |-> coll[x].name, photo_url |-> coll[x].photo_url,
     created_at |-> coll[x].created_at, updated_at |-> coll[x].updated_at]

\* the orderings of the set S (a cursor's documents, each once)
Orderings(S) == {q \in [1 .. Cardinality(S) -> S] : \A i, j \in DOMAIN q : i # j => q[i] # q[j]}
\* cursor.sort("title", 1): ascending by title, ties in any order
SortByTitle(coll, S) == {q \in Orderings(S) : \A i, j \in DOMAIN q : i < j => coll[q[i]].title <= coll[q[j]].title}

\* ------------------------------------------------------------- responses
\* what the endpoint op answers: the status code and the body (its kind and documents)
Response(op, status, kind, docs) == [op |-> op, status |-> status, kind |-> kind, docs |-> docs]
\* raise HTTPException(status_code=status)
Error(op, status) == Response(op, status, "error", <<>>)

Idle == [st |-> "idle", target |-> NoneId, stack |-> <<>>, items0 |-> <<>>, props0 |-> <<>>]
\* no delete_item request is running
Quiescent == \A s \in Slots : del[s].st = "idle"
\* a finished delete or list_items request is remembered until the next request
\* starts: the _id it was about, the identifier strings it carried and the store
\* it started from
NoLast == [op |-> "none", target |-> NoneId, args |-> <<>>, items0 |-> <<>>, props0 |-> <<>>]
Finished(op, target, args, items0, props0) ==
    [op |-> op, target |-> target, args |-> args, items0 |-> items0, props0 |-> props0]

Init ==
    /\ props = <<>>
    /\ items = <<>>
    /\ nextId = 1
    /\ now = 0
    /\ del = [s \in Slots |-> Idle]
    /\ resp = Response("start", 200, "none", <<>>)
    /\ last = NoLast
    /\ made = {}
    /\ done = {}

\* the clock advances between two requests or two steps of one
Tick ==
    /\ now < MaxClock
    /\ now' = now + 1
    /\ UNCHANGED <<props, items, nextId, del, resp, last, made, done>>

\* ------------------------------------------------------------ properties
\* GET /api/properties
list_properties ==
    /\ \E q \in Orderings(DOMAIN props) :
         resp' = Response("list_properties", 200, "docs",
                          [i \in DOMAIN q |-> SerializeProperty(props, q[i])])
    /\ last' = NoLast
    /\ UNCHANGED <<props, items, nextId, now, del>>

\* database.create_document: the document with created_at and updated_at stamped
create_document(data, t) == [name |-> data.name, photo_url |-> data.photo_url, created_at |-> t, updated_at |-> t]

\* POST /api/properties
create_property(name, photo) ==
    /\ nextId <= NumIds
    /\ props' = InsertOne(props, nextId, create_document([name |-> name, photo_url |-> photo], now))
    /\ nextId' = nextId + 1
    /\ resp' = Response("create_property", 200, "doc", <<SerializeProperty(props', nextId)>>)
    /\ last' = NoLast
    /\ UNCHANGED <<items, now, del>>

\* update = {k: v for k, v in payload.model_dump().items() if v is not None}: its keys
PresentFields(fields) == {k \in DOMAIN fields : fields[k] # None}
\* the value of a present field
Value(o) == CHOOSE v \in o : TRUE
\* $set of the present fields and updated_at on a property
SetProperty(doc, fields, t) ==
    [doc EXCEPT !.name = IF "name" \in PresentFields(fields) THEN Value(fields.name) ELSE @,
                !.photo_url = IF "photo_url" \in PresentFields(fields) THEN fields.photo_url ELSE @,
                !.updated_at = t]

\* PATCH /api/properties/{property_id}
update_property(property_id, fields) ==
    LET oid == ToObjectId(property_id) IN
    /\ IF ~IsValid(property_id)
         THEN resp' = Error("update_property", 400) /\ UNCHANGED props
       ELSE IF PresentFields(fields) = {}
         THEN resp' = Response("update_property", 200, "updated_false", <<>>) /\ UNCHANGED props
       ELSE IF oid \notin DOMAIN props
         THEN resp' = Error("update_property", 404) /\ UNCHANGED props
       ELSE /\ props' = [props EXCEPT ![oid] = SetProperty(@, fields, now)]
            /\ resp' = Response("update_property", 200, "doc", <<SerializeProperty(props', oid)>>)
    /\ last' = NoLast
    /\ UNCHANGED <<items, nextId, now, del>>

\* DELETE /api/properties/{property_id}
delete_property(property_id) ==
    LET oid == ToObjectId(property_id) IN
    /\ IF ~IsValid(property_id)
         THEN resp' = Error("delete_property", 400) /\ UNCHANGED <<props, items>>
       ELSE /\ props' = DeleteOne(props, oid)
            /\ items' = DeleteManyByProperty(items, oid)
            /\ resp' = Response("delete_property", 200, "deleted", <<>>)
    /\ last' = IF IsValid(property_id) THEN Finished("delete_property", oid, <<>>, items, props) ELSE NoLast
    /\ UNCHANGED <<nextId, now, del>>

\* ------------------------------------------------------- checklist items
\* GET /api/properties/{property_id}/items
list_items(property_id, parent_id) ==
    /\ IF ~IsValid(property_id)
         THEN resp' = Error("list_items", 400)
       ELSE IF Truthy(parent_id) /\ ~IsValid(parent_id)
         THEN resp' = Error("list_items", 400)
       ELSE LET par == IF Truthy(parent_id) THEN ToObjectId(parent_id) ELSE NoneId
                found == FindItems(items, ToObjectId(property_id), par) IN
            \E q \in SortByTitle(items, found) :
               resp' = Response("list_items", 200, "docs", [i \in DOMAIN q |-> SerializeItem(items, q[i])])
    /\ last' = Finished("list_items", NoneId, <<property_id, parent_id>>, items, props)
    /\ UNCHANGED <<props, items, nextId, now, del>>

\* mutant: the line item["parent_id"] = parent_oid is missing, and the parent_id
\* stored (a string) is the ObjectId of no filter
create_item_parent_unfixed(property_id, title, is_folder, parent_id, maxClock) ==
    /\ IF ~IsValid(property_id)
         THEN resp' = Error("create_item", 400) /\ UNCHANGED <<items, nextId, now>>
       ELSE IF Truthy(parent_id) /\ ~IsValid(parent_id)
         THEN resp' = Error("create_item", 400) /\ UNCHANGED <<items, nextId, now>>
       ELSE /\ nextId <= NumIds
            /\ \E t \in {now, now + 1} \cap (0 .. maxClock) :
                 /\ now' = t
                 /\ items' = InsertOne(items, nextId,
                                       [property_id |-> ToObjectId(property_id),
                                        parent_id |-> IF Truthy(parent_id) THEN NumIds + 1 ELSE NoneId,
                                        title |-> title, is_folder |-> is_folder,
                                        created_at |-> now, updated_at |-> t])
            /\ nextId' = nextId + 1
            /\ resp' = Response("create_item", 200, "doc", <<SerializeItem(items', nextId)>>)
    /\ last' = NoLast
    /\ UNCHANGED <<props, del>>

\* POST /api/properties/{property_id}/items
create_item(property_id, title, is_folder, parent_id, maxClock) ==
    /\ IF ~IsValid(property_id)
         THEN resp' = Error("create_item", 400) /\ UNCHANGED <<items, nextId, now>>
       ELSE IF Truthy(parent_id) /\ ~IsValid(parent_id)
         THEN resp' = Error("create_item", 400) /\ UNCHANGED <<items, nextId, now>>
       ELSE LET parent_oid == IF Truthy(parent_id) THEN ToObjectId(parent_id) ELSE NoneId IN
            /\ nextId <= NumIds
            \* datetime.now is read twice
            /\ \E t \in {now, now + 1} \cap (0 .. maxClock) :
                 /\ now' = t
                 /\ items' = InsertOne(items, nextId,
                                       [property_id |-> ToObjectId(property_id), parent_id |-> parent_oid,
                                        title |-> title, is_folder |-> is_folder,
                                        created_at |-> now, updated_at |-> t])
            /\ nextId' = nextId + 1
            /\ resp' = Response("create_item", 200, "doc", <<SerializeItem(items', nextId)>>)
    /\ last' = NoLast
    /\ UNCHANGED <<props, del>>

\* mutant: a field the payload leaves out is set to the default of the payload model
SetItemDefaults(doc, fields, t) ==
    [doc EXCEPT !.title = IF "title" \in PresentFields(fields) THEN Value(fields.title) ELSE @,
                !.is_folder = IF "is_folder" \in PresentFields(fields) THEN Value(fields.is_folder) ELSE FALSE,
                !.updated_at = t]
\* mutant: update["updated_at"] is not set
SetItemUnstamped(doc, fields, t) ==
    [doc EXCEPT !.title = IF "title" \in PresentFields(fields) THEN Value(fields.title) ELSE @,
                !.is_folder = IF "is_folder" \in PresentFields(fields) THEN Value(fields.is_folder) ELSE @]
\* $set of the present fields and updated_at on a checklist item
SetItem(doc, fields, t) ==
    [doc EXCEPT !.title = IF "title" \in PresentFields(fields) THEN Value(fields.title) ELSE @,
                !.is_folder = IF "is_folder" \in PresentFields(fields) THEN Value(fields.is_folder) ELSE @,
                !.updated_at = t]

\* mutant: matched_count is not looked at
update_item_unmatched(item_id, fields) ==
    LET oid == ToObjectId(item_id) IN
    /\ IF ~IsValid(item_id)
         THEN resp' = Error("update_item", 400) /\ UNCHANGED items
       ELSE IF PresentFields(fields) = {}
         THEN resp' = Response("update_item", 200, "updated_false", <<>>) /\ UNCHANGED items
       ELSE IF oid \notin DOMAIN items
         THEN resp' = Response("update_item", 200, "doc", <<>>) /\ UNCHANGED items
       ELSE /\ items' = [items EXCEPT ![oid] = SetItem(@, fields, now)]
            /\ resp' = Response("update_item", 200, "doc", <<SerializeItem(items', oid)>>)
    /\ last' = NoLast
    /\ UNCHANGED <<props, nextId, now, del>>

\* mutant: updated_at is put into the update before the test for an empty update
update_item_stamped_first(item_id, fields) ==
    LET oid == ToObjectId(item_id) IN
    /\ IF ~IsValid(item_id)
         THEN resp' = Error("update_item", 400) /\ UNCHANGED items
       ELSE IF oid \notin DOMAIN items
         THEN resp' = Error("update_item", 404) /\ UNCHANGED items
       ELSE /\ items' = [items EXCEPT ![oid] = SetItem(@, fields, now)]
            /\ resp' = Response("update_item", 200, "doc", <<SerializeItem(items', oid)>>)
    /\ last' = NoLast
    /\ UNCHANGED <<props, nextId, now, del>>

\* PATCH /api/items/{item_id}
update_item(item_id, fields) ==
    LET oid == ToObjectId(item_id) IN
    /\ IF ~IsValid(item_id)
         THEN resp' = Error("update_item", 400) /\ UNCHANGED items
       ELSE IF PresentFields(fields) = {}
         THEN resp' = Response("update_item", 200, "updated_false", <<>>) /\ UNCHANGED items
       ELSE IF oid \notin DOMAIN items
         THEN resp' = Error("update_item", 404) /\ UNCHANGED items
       ELSE /\ items' = [items EXCEPT ![oid] = SetItem(@, fields, now)]
            /\ resp' = Response("update_item", 200, "doc", <<SerializeItem(items', oid)>>)
    /\ last' = NoLast
    /\ UNCHANGED <<props, nextId, now, del>>

\* ---------------------------------------------------- recursive delete
\* a call of delete_children(parent_oid): its children list still to loop over and
\* the child ch whose recursive call is running
Frame(parent_oid) == [parent_oid |-> parent_oid, phase |-> "find", children |-> {}, ch |-> NoneId]
Top(s) == del[s].stack[Len(del[s].stack)]
SetTop(stack, f) == [stack EXCEPT ![Len(stack)] = f]
Pop(stack) == SubSeq(stack, 1, Len(stack) - 1)
\* the request takes the first free slot
FreeSlot(s) == del[s].st = "idle" /\ \A r \in Slots : r < s => del[r].st # "idle"

\* DELETE /api/items/{item_id}: validation, then the call delete_children(oid)
delete_item(s, item_id) ==
    /\ FreeSlot(s)
    /\ IF ~IsValid(item_id)
         THEN /\ resp' = Error("delete_item", 400)
              /\ UNCHANGED del
       ELSE /\ del' = [del EXCEPT ![s] = [st |-> "run", target |-> ToObjectId(item_id),
                                           stack |-> <<Frame(ToObjectId(item_id))>>,
                                           items0 |-> items, props0 |-> props]]
            \* nothing is answered yet
            /\ resp' = Response("delete_item", 0, "pending", <<>>)
    /\ last' = NoLast
    /\ UNCHANGED <<props, items, nextId, now>>

\* children = list(db["checklistitem"].find({"parent_id": parent_oid}))
delete_children_find(s) ==
    /\ del[s].st = "run"
    /\ Top(s).phase = "find"
    /\ del' = [del EXCEPT ![s].stack = SetTop(@, [Top(s) EXCEPT !.phase = "loop",
                                                  !.children = FindByParent(items, Top(s).parent_oid)])]
    /\ UNCHANGED <<props, items, nextId, now, resp, last>>

\* mutant: the loop deletes the child without the recursive call
delete_children_call_shallow(s) ==
    /\ del[s].st = "run"
    /\ Top(s).phase = "loop"
    /\ \E c \in Top(s).children :
         /\ del' = [del EXCEPT ![s].stack = SetTop(@, [Top(s) EXCEPT !.children = @ \ {c}])]
         /\ items' = DeleteOne(items, c)
    /\ UNCHANGED <<props, nextId, now, resp, last>>

\* mutant: the child is deleted before the recursive call, not after
delete_children_call_preorder(s) ==
    /\ del[s].st = "run"
    /\ Top(s).phase = "loop"
    /\ Len(del[s].stack) < MaxDepth
    /\ \E c \in Top(s).children :
         /\ del' = [del EXCEPT ![s].stack =
                      Append(SetTop(@, [Top(s) EXCEPT !.children = @ \ {c}, !.ch = c]), Frame(c))]
         /\ items' = DeleteOne(items, c)
    /\ UNCHANGED <<props, nextId, now, resp, last>>

\* mutant: the loop also takes children stored after the listing
delete_children_call_live(s) ==
    /\ del[s].st = "run"
    /\ Top(s).phase = "loop"
    /\ Len(del[s].stack) < MaxDepth
    /\ \E c \in Top(s).children \cup FindByParent(items, Top(s).parent_oid) :
         del' = [del EXCEPT ![s].stack =
                   Append(SetTop(@, [Top(s) EXCEPT !.children = @ \ {c}, !.ch = c]), Frame(c))]
    /\ UNCHANGED <<props, items, nextId, now, resp, last>>

\* for ch in children: delete_children(ch["_id"])
delete_children_call(s) ==
    /\ del[s].st = "run"
    /\ Top(s).phase = "loop"
    /\ Len(del[s].stack) < MaxDepth
    /\ \E c \in Top(s).children :
         del' = [del EXCEPT ![s].stack =
                   Append(SetTop(@, [Top(s) EXCEPT !.children = @ \ {c}, !.ch = c]), Frame(c))]
    /\ UNCHANGED <<props, items, nextId, now, resp, last>>

\* the recursive call returns, then db["checklistitem"].delete_one({"_id": ch["_id"]})
delete_children_return(s) ==
    /\ del[s].st = "run"
    /\ Top(s).phase = "loop"
    /\ Top(s).children = {}
    /\ Len(del[s].stack) > 1
    /\ LET caller == del[s].stack[Len(del[s].stack) - 1] IN
         /\ items' = DeleteOne(items, caller.ch)
         /\ del' = [del EXCEPT ![s].stack = SetTop(Pop(@), [caller EXCEPT !.ch = NoneId])]
    /\ UNCHANGED <<props, nextId, now, resp, last>>

\* mutant: the failed call is caught and the loop goes on to its delete_one
delete_children_overflow_swallowed(s) ==
    /\ del[s].st = "run"
    /\ Top(s).phase = "loop"
    /\ Len(del[s].stack) = MaxDepth
    /\ \E c \in Top(s).children :
         /\ del' = [del EXCEPT ![s].stack = SetTop(@, [Top(s) EXCEPT !.children = @ \ {c}])]
         /\ items' = DeleteOne(items, c)
    /\ UNCHANGED <<props, nextId, now, resp, last>>

\* the call delete_children(ch["_id"]) at the recursion limit: RecursionError unwinds
\* every frame, none of which catches it, and the request is answered 500
delete_children_overflow(s) ==
    /\ del[s].st = "run"
    /\ Top(s).phase = "loop"
    /\ Len(del[s].stack) = MaxDepth
    /\ Top(s).children # {}
    /\ resp' = Error("delete_item", 500)
    /\ last' = Finished("delete_item", del[s].target, <<>>, del[s].items0, del[s].props0)
    /\ del' = [del EXCEPT ![s] = Idle]
    /\ UNCHANGED <<props, items, nextId, now>>

\* mutant: the last delete filters on parent_id, not on _id
delete_item_finish_by_parent(s) ==
    /\ del[s].st = "run"
    /\ Top(s).phase = "loop"
    /\ Top(s).children = {}
    /\ Len(del[s].stack) = 1
    /\ items' = Restrict(items, DOMAIN items \ FindByParent(items, del[s].target))
    /\ resp' = Response("delete_item", 200, "deleted", <<>>)
    /\ last' = Finished("delete_item", del[s].target, <<>>, del[s].items0, del[s].props0)
    /\ del' = [del EXCEPT ![s] = Idle]
    /\ UNCHANGED <<props, nextId, now>>

\* delete_children(oid) has returned: db["checklistitem"].delete_one({"_id": oid})
delete_item_finish(s) ==
    /\ del[s].st = "run"
    /\ Top(s).phase = "loop"
    /\ Top(s).children = {}
    /\ Len(del[s].stack) = 1
    /\ items' = DeleteOne(items, del[s].target)
    /\ resp' = Response("delete_item", 200, "deleted", <<>>)
    /\ last' = Finished("delete_item", del[s].target, <<>>, del[s].items0, del[s].props0)
    /\ del' = [del EXCEPT ![s] = Idle]
    /\ UNCHANGED <<props, nextId, now>>

\* --------------------------------------------------------- specification
\* a create_item request as it is followed: the _id it inserted, the identifier
\* strings it carried, and whether a running delete_item had listed the children of
\* its parent (or removed the parent) before the insert
Made(oid, property_id, parent_id, late) ==
    [id |-> oid, property_id |-> property_id, parent_id |-> parent_id, late |-> late]
\* a running delete_item has listed the children of p, or has removed p
Listed(p) ==
    \E s \in Slots :
       /\ del[s].st = "run"
       /\ \/ \E i \in DOMAIN del[s].stack : del[s].stack[i].parent_oid = p /\ del[s].stack[i].phase = "loop"
          \/ p \in DOMAIN del[s].items0 \ DOMAIN items
\* the delete_item request of slot s as it ends, and what is remembered of it when
\* another is still running
Ended(s) == Finished("delete_item", del[s].target, <<>>, del[s].items0, del[s].props0)
Overlapped(s) == IF \A r \in Slots \ {s} : del[r].st = "idle" THEN done ELSE done \cup {Ended(s)}

\* a step of the delete_item request of slot s
Serve(s) ==
    \/ delete_children_find(s) /\ UNCHANGED <<made, done>>
    \/ delete_children_call(s) /\ UNCHANGED <<made, done>>
    \/ delete_children_return(s) /\ UNCHANGED <<made, done>>
    \/ delete_children_overflow(s) /\ UNCHANGED made /\ done' = Overlapped(s)
    \/ delete_item_finish(s) /\ UNCHANGED made /\ done' = Overlapped(s)

\* the requests, with inputs drawn from the sets of the record in: id the identifiers
\* of update and delete requests, list the (property_id, parent_id) pairs of
\* list_items, property_id and parent_id those of create_item, title, is_folder,
\* name and photo_url the field values, maxClock the last reading of the clock
\* within a request, follow whether the create_item requests are followed.  A
\* request starts when no delete_item is running; those named in overlap also start
\* while one is running, and their store operations interleave with its steps (of
\* delete_item requests, two at a time).
API(in) ==
    \/ Quiescent /\ list_properties /\ UNCHANGED made /\ done' = {}
    \/ Quiescent /\ UNCHANGED made /\ done' = {}
                 /\ \E name \in in.name, photo \in in.photo_url : create_property(name, photo)
    \/ Quiescent /\ UNCHANGED made /\ done' = {}
                 /\ \E id \in in.id, name \in Opt(in.name), photo \in in.photo_url :
                      update_property(id, [name |-> name, photo_url |-> photo])
    \/ Quiescent /\ done' = {}
                 /\ \E id \in in.id :
                      /\ delete_property(id)
                      /\ made' = IF IsValid(id) THEN {} ELSE made
    \/ Quiescent /\ UNCHANGED made /\ done' = {}
                 /\ \E q \in in.list : list_items(q[1], q[2])
    \/ /\ Quiescent \/ "create_item" \in in.overlap
       /\ done' = IF Quiescent THEN {} ELSE done
       /\ \E id \in in.property_id, title \in in.title, is_folder \in in.is_folder, par \in in.parent_id :
            /\ create_item(id, title, is_folder, par, in.maxClock)
            /\ made' = IF in.follow /\ resp'.status = 200
                         THEN made \cup {Made(nextId, id, par, Listed(ToObjectId(par)))}
                         ELSE made
    \/ Quiescent /\ UNCHANGED made /\ done' = {}
                 /\ \E id \in in.id, title \in Opt(in.title), is_folder \in Opt(in.is_folder) :
                      update_item(id, [title |-> title, is_folder |-> is_folder])
    \/ /\ Quiescent \/ ("delete_item" \in in.overlap /\ done = {})
       /\ done' = IF Quiescent THEN {} ELSE done
       /\ \E s \in Slots, id \in PathStrings :
            /\ delete_item(s, id)
            /\ made' = IF IsValid(id) THEN {} ELSE made
    \/ \E s \in Slots : Serve(s)

\* the identifiers of two properties, in both cases, and a malformed one
TwoProperties == {<<"hex", 1>>, <<"HEX", 1>>, <<"hex", 2>>, Junk}
\* one listing for each way list_items validates its identifiers
FewListings == {<<Junk, Absent>>, <<<<"hex", 1>>, Junk>>, <<<<"hex", 1>>, EmptyStr>>,
                <<<<"HEX", 1>>, Absent>>, <<<<"hex", 2>>, <<"hex", 1>>>>}

\* the shape of the tree: items of two properties under every parent_id, one title,
\* a stopped clock
Next ==
    API([id |-> PathStrings, list |-> FewListings, property_id |-> TwoProperties, parent_id |-> OptStrings,
         title |-> {1}, is_folder |-> {FALSE}, name |-> {"home"}, photo_url |-> {None}, maxClock |-> 0,
         follow |-> FALSE, overlap |-> {}])
Spec == Init /\ [][Next]_vars

\* the fields of the records: items of one property, at the root or under the
\* first id, one title, every is_folder, a running clock
NextFields ==
    \/ API([id |-> PathStrings, list |-> {<<<<"HEX", 1>>, Absent>>}, property_id |-> {<<"HEX", 1>>},
            parent_id |-> {Absent, <<"hex", 1>>}, title |-> {1}, is_folder |-> BOOLEAN,
            name |-> {"home"}, photo_url |-> {None}, maxClock |-> MaxClock, follow |-> FALSE,
            overlap |-> {}])
    \/ Tick
SpecFields == Init /\ [][NextFields]_vars

\* the listing: items of two properties, at the root or under the first two ids,
\* every title, every listing of these, a stopped clock
NextList ==
    API([id |-> {<<"hex", 1>>, <<"hex", 2>>, Junk},
         list |-> TwoProperties \X {Absent, EmptyStr, Junk, <<"hex", 1>>, <<"HEX", 1>>, <<"hex", 2>>},
         property_id |-> TwoProperties, parent_id |-> {Absent, EmptyStr, Junk, <<"HEX", 1>>, <<"hex", 2>>},
         title |-> Titles, is_folder |-> {FALSE}, name |-> {"home"}, photo_url |-> {None}, maxClock |-> 0,
         follow |-> FALSE, overlap |-> {}])
SpecList == Init /\ [][NextList]_vars

\* the creations followed: items of two properties, at the root or under the
\* first id, listed by either spelling of an identifier, one title, a stopped clock
NextCreate ==
    API([id |-> {<<"hex", 1>>, Junk},
         list |-> {<<"hex", 1>>, <<"HEX", 1>>, <<"hex", 2>>} \X {Absent, EmptyStr, <<"hex", 1>>, <<"HEX", 1>>},
         property_id |-> {<<"HEX", 1>>, <<"hex", 2>>}, parent_id |-> {Absent, EmptyStr, <<"HEX", 1>>},
         title |-> {1}, is_folder |-> {FALSE}, name |-> {"home"}, photo_url |-> {None}, maxClock |-> 0,
         follow |-> TRUE, overlap |-> {}])
SpecCreate == Init /\ [][NextCreate]_vars

\* two deletes at once: items of one property, at the root or under the first two
\* ids, where a delete_item request also starts while another is running
NextPair ==
    API([id |-> {<<"hex", 1>>}, list |-> {<<<<"hex", 1>>, Absent>>}, property_id |-> {<<"hex", 1>>},
         parent_id |-> {Absent, <<"hex", 1>>, <<"hex", 2>>}, title |-> {1}, is_folder |-> {FALSE},
         name |-> {"home"}, photo_url |-> {None}, maxClock |-> 0, follow |-> FALSE,
         overlap |-> {"delete_item"}])
SpecPair == Init /\ [][NextPair]_vars

\* a create during a delete: items of one property, at the root or under the first
\* two ids, where a followed create_item request also starts while a delete_item
\* request is running
NextRace ==
    API([id |-> {<<"hex", 1>>}, list |-> {<<<<"hex", 1>>, Absent>>}, property_id |-> {<<"hex", 1>>},
         parent_id |-> {Absent, <<"hex", 1>>, <<"hex", 2>>}, title |-> {1}, is_folder |-> {FALSE},
         name |-> {"home"}, photo_url |-> {None}, maxClock |-> 0, follow |-> TRUE,
         overlap |-> {"create_item"}])
SpecRace == Init /\ [][NextRace]_vars

\* the requests of Spec, where the worker that serves a delete_item request keeps
\* taking its next step
SpecLive == Init /\ [][Next]_vars /\ \A s \in Slots : WF_vars(Serve(s))

\* ------------------------------------------------------------ the tree
\* the items of coll whose parent_id chain leads to x, found in at most n rounds
RECURSIVE Below(_, _, _)
Below(coll, S, n) ==
    LET T == S \cup {y \in DOMAIN coll : coll[y].parent_id \in S} IN
    IF n = 0 \/ T = S THEN S ELSE Below(coll, T, n - 1)
Descendants(coll, x) == Below(coll, FindByParent(coll, x), NumIds)
\* no item is its own descendant
Forest(coll) == \A x \in DOMAIN coll : x \notin Descendants(coll, x)

\* ---------------------------------------------------------------- claims
\* C1: when a delete_item request on a well-formed id has run to completion on a
\* store whose parent_id graph is a forest, the store holds neither the target
\* nor any item that was a transitive descendant of it.
ItemCascadeDelete ==
    (last.op = "delete_item" /\ Forest(last.items0)) =>
        DOMAIN items \cap ({last.target} \cup Descendants(last.items0, last.target)) = {}
\* a delete of an existing item with a grandchild has completed
ItemCascadeDeleteWitness ==
    /\ last.op = "delete_item"
    /\ Forest(last.items0)
    /\ last.target \in DOMAIN last.items0
    /\ \E y \in Descendants(last.items0, last.target) : last.items0[y].parent_id # last.target

\* C2: when a delete_property request on a well-formed id has completed, the store
\* holds no property record with that id and no checklist item whose property_id
\* is that id, whether or not the property record existed.
PropertyCascadeDelete ==
    last.op = "delete_property" =>
        /\ last.target \notin DOMAIN props
        /\ \A x \in DOMAIN items : items[x].property_id # last.target
\* an existing property was deleted that had an item below another item of it
PropertyCascadeDeleteWitness ==
    /\ last.op = "delete_property"
    /\ last.target \in DOMAIN last.props0
    /\ \E x, y \in DOMAIN last.items0 :
         /\ last.items0[x].property_id = last.target
         /\ last.items0[y].property_id = last.target
         /\ last.items0[y].parent_id = x

\* the identifier strings as a client sees them
WellFormed(w) == w[1] \in {"hex", "HEX"}
Malformed(w) == w[1] \in {"junk", "empty"}
ItemPayloads == [title : Opt(Titles), is_folder : Opt(BOOLEAN)]
PropertyPayloads == [name : Opt(Names), photo_url : Opt(Photos)]
\* a step of a request whose path carries the identifier id (the test of resp'.op,
\* which every branch of the endpoint sets, comes first to spare the evaluation)
PathRequest(id) ==
    /\ Quiescent
    /\ \/ resp'.op = "update_property" /\ \E f \in PropertyPayloads : update_property(id, f)
       \/ resp'.op = "delete_property" /\ delete_property(id)
       \/ resp'.op = "list_items" /\ \E par \in OptStrings : list_items(id, par)
       \/ resp'.op = "create_item" /\ \E par \in OptStrings, t \in Titles, f \in BOOLEAN :
                                        create_item(id, t, f, par, MaxClock)
       \/ resp'.op = "update_item" /\ \E f \in ItemPayloads : update_item(id, f)
       \/ resp'.op = "delete_item" /\ \E s \in Slots : delete_item(s, id)
\* a step of a request that carries the parent identifier par
ParentRequest(par) ==
    /\ Quiescent
    /\ \E id \in PathStrings :
         \/ resp'.op = "list_items" /\ list_items(id, par)
         \/ resp'.op = "create_item" /\ \E t \in Titles, f \in BOOLEAN : create_item(id, t, f, par, MaxClock)
\* answered 400 with the store as it was
Rejected == resp'.status = 400 /\ resp'.kind = "error" /\ items' = items /\ props' = props

\* C3: a request carrying a malformed identifier (a string that is no ObjectId), in
\* its path or as the parent_id of list_items or create_item, is answered 400 and
\* leaves the store as it was.
ValidationBeforeStore ==
    [][/\ \A id \in PathStrings : (Malformed(id) /\ PathRequest(id)) => Rejected
       /\ \A par \in OptStrings : (Malformed(par) /\ ParentRequest(par)) => Rejected]_vars

\* C4: an item that create_item has just inserted has a property_id that is the id
\* of a property record in the store.
CreateReferencesProperty ==
    (resp.op = "create_item" /\ resp.status = 200) =>
        ToObjectId(resp.docs[1].property_id) \in DOMAIN props

\* answered 404 with the store as it was
NotFound == resp'.status = 404 /\ resp'.kind = "error" /\ items' = items /\ props' = props
SomeFieldGiven(fields) == \E k \in DOMAIN fields : fields[k] # {}
\* C5 as stated: an update with a well-formed id that matches no record is answered
\* 404 for every payload and leaves the store as it was.
UpdateNotFoundAnyPayload ==
    [][\A id \in PathStrings : (WellFormed(id) /\ Quiescent) =>
         /\ (resp'.op = "update_item" /\ ToObjectId(id) \notin DOMAIN items) =>
              \A f \in ItemPayloads : update_item(id, f) => NotFound
         /\ (resp'.op = "update_property" /\ ToObjectId(id) \notin DOMAIN props) =>
              \A f \in PropertyPayloads : update_property(id, f) => NotFound]_vars
\* C5 amended: an update with a well-formed id that matches no record and a payload
\* with at least one non-null field is answered 404 and leaves the store as it was.
UpdateNotFound ==
    [][\A id \in PathStrings : (WellFormed(id) /\ Quiescent) =>
         /\ (resp'.op = "update_item" /\ ToObjectId(id) \notin DOMAIN items) =>
              \A f \in ItemPayloads : (SomeFieldGiven(f) /\ update_item(id, f)) => NotFound
         /\ (resp'.op = "update_property" /\ ToObjectId(id) \notin DOMAIN props) =>
              \A f \in PropertyPayloads : (SomeFieldGiven(f) /\ update_property(id, f)) => NotFound]_vars
\* update_item has answered 404 on a store that holds items
UpdateNotFoundWitness ==
    /\ resp.op = "update_item"
    /\ resp.status = 404
    /\ DOMAIN items # {}

\* C6: a delete request (item or property) with a well-formed id whose target
\* record is absent from the store is answered 404.
DeleteNotFound ==
    /\ (last.op = "delete_item" /\ last.target \notin DOMAIN last.items0) => resp.status = 404
    /\ (last.op = "delete_property" /\ last.target \notin DOMAIN last.props0) => resp.status = 404

\* answered {updated: false} with the store as it was
NoOp == resp'.status = 200 /\ resp'.kind = "updated_false" /\ items' = items /\ props' = props
\* C7: an update (item or property) with a well-formed id and a payload with no
\* non-null field is answered {updated: false} with status 200 and leaves the store,
\* and so the target's updated_at, as it was.
NoOpUpdate ==
    [][\A id \in PathStrings : (WellFormed(id) /\ Quiescent) =>
         /\ (resp'.op = "update_item" /\ ~NoOp) =>
              \A f \in ItemPayloads : ~SomeFieldGiven(f) => ~update_item(id, f)
         /\ (resp'.op = "update_property" /\ ~NoOp) =>
              \A f \in PropertyPayloads : ~SomeFieldGiven(f) => ~update_property(id, f)]_vars
\* update_item has answered {updated: false} when every id is an item stamped before now
NoOpUpdateWitness ==
    /\ resp.op = "update_item"
    /\ resp.kind = "updated_false"
    /\ DOMAIN items = Ids
    /\ \A x \in DOMAIN items : items[x].updated_at < now

\* the ids of the items docs lists are those of property pid with parent_id scope, each
\* once, by ascending title
ListedExactly(docs, pid, scope) ==
    LET expected == {x \in DOMAIN items : items[x].property_id = pid /\ items[x].parent_id = scope} IN
    /\ Len(docs) = Cardinality(expected)
    /\ {ToObjectId(docs[i].id) : i \in DOMAIN docs} = expected
    /\ \A i, j \in DOMAIN docs : i < j => docs[i].title <= docs[j].title
\* C8: list_items of a well-formed property_id has answered, with parent_id omitted,
\* exactly the stored items of that property whose parent_id is null and, with a
\* well-formed parent_id p, exactly those whose parent_id is p, ordered by ascending title.
ParentScopedListing ==
    (/\ last.op = "list_items"
     /\ WellFormed(last.args[1])
     /\ last.args[2] = Absent \/ WellFormed(last.args[2])) =>
        /\ resp.status = 200
        /\ ListedExactly(resp.docs, last.args[1][2], IF last.args[2] = Absent THEN NoneId ELSE last.args[2][2])
\* a listing under a parent has answered two of three stored items, the later
\* created first
ParentScopedListingWitness ==
    /\ resp.op = "list_items"
    /\ Len(resp.docs) = 2
    /\ resp.docs[1].parent_id # Absent
    /\ resp.docs[1].title < resp.docs[2].title
    /\ ToObjectId(resp.docs[1].id) > ToObjectId(resp.docs[2].id)
    /\ Cardinality(DOMAIN items) = 3

\* two identifier strings a client takes for the same: equal, or the same digits
SameString(a, b) == a = b \/ (WellFormed(a) /\ WellFormed(b) /\ a[2] = b[2])
\* C9: a list_items with the property_id and the parent_id of a successful
\* create_item before it, no delete having come between, has answered a list in
\* which the created item's id is exactly once.
CreateThenList ==
    last.op = "list_items" =>
        \A m \in made :
           (SameString(last.args[1], m.property_id) /\ SameString(last.args[2], m.parent_id)) =>
               /\ resp.status = 200
               /\ Cardinality({i \in DOMAIN resp.docs : resp.docs[i].id = Str(m.id)}) = 1
\* a listing under a parent has answered two items, the first of them created under
\* that parent and another request served since
CreateThenListWitness ==
    /\ last.op = "list_items"
    /\ Len(resp.docs) = 2
    /\ \E m \in made :
         /\ SameString(last.args[1], m.property_id)
         /\ SameString(last.args[2], m.parent_id)
         /\ m.parent_id # last.args[2]
         /\ WellFormed(m.parent_id)
         /\ m.id < nextId - 1

\* C10: when a delete_item request on an existing item without children has
\* completed, the checklist items are those of before without the target, each as it
\* was, and the property records are as they were.
LeafDeleteFrame ==
    (/\ last.op = "delete_item"
     /\ last.target \in DOMAIN last.items0
     /\ \A x \in DOMAIN last.items0 : last.items0[x].parent_id # last.target) =>
        /\ items = Restrict(last.items0, DOMAIN last.items0 \ {last.target})
        /\ props = last.props0
\* a leaf was deleted from a store holding its parent, a root item and a property
LeafDeleteFrameWitness ==
    /\ last.op = "delete_item"
    /\ last.target \in DOMAIN last.items0
    /\ \A x \in DOMAIN last.items0 : last.items0[x].parent_id # last.target
    /\ last.items0[last.target].parent_id \in DOMAIN items
    /\ DOMAIN props # {}

\* C11: in every reachable state the parent_id graph of the stored checklist items
\* has no cycle, an item that is its own parent included.
ForestInvariant == Forest(items)

\* C18: a completed delete_item of an existing item has removed no checklist item
\* whose property_id differs from the target's.
CascadeWithinProperty ==
    (last.op = "delete_item" /\ last.target \in DOMAIN last.items0) =>
        \A x \in DOMAIN last.items0 \ DOMAIN items :
           last.items0[x].property_id = last.items0[last.target].property_id

\* C12 as stated: a successful update (item or property) with at least one present
\* field sets the target's updated_at to a value strictly later than it held before.
UpdatedAtAdvances ==
    [][\A id \in PathStrings : (WellFormed(id) /\ Quiescent) =>
         /\ (resp'.op = "update_item" /\ resp'.kind = "doc") =>
              \A f \in ItemPayloads : (SomeFieldGiven(f) /\ update_item(id, f)) =>
                 items'[id[2]].updated_at > items[id[2]].updated_at
         /\ (resp'.op = "update_property" /\ resp'.kind = "doc") =>
              \A f \in PropertyPayloads : (SomeFieldGiven(f) /\ update_property(id, f)) =>
                 props'[id[2]].updated_at > props[id[2]].updated_at]_vars
\* C12 amended: a successful update (item or property) with at least one present field
\* sets the target's updated_at to the reading of the clock at the update, which is
\* never earlier than the value held before and strictly later when the clock has
\* advanced since that value was stamped.
UpdatedAtNotEarlier ==
    [][\A id \in PathStrings : (WellFormed(id) /\ Quiescent) =>
         /\ (resp'.op = "update_item" /\ resp'.kind = "doc") =>
              \A f \in ItemPayloads : (SomeFieldGiven(f) /\ update_item(id, f)) =>
                 /\ items'[id[2]].updated_at = now
                 /\ items'[id[2]].updated_at >= items[id[2]].updated_at
                 /\ now > items[id[2]].updated_at => items'[id[2]].updated_at > items[id[2]].updated_at
         /\ (resp'.op = "update_property" /\ resp'.kind = "doc") =>
              \A f \in PropertyPayloads : (SomeFieldGiven(f) /\ update_property(id, f)) =>
                 /\ props'[id[2]].updated_at = now
                 /\ props'[id[2]].updated_at >= props[id[2]].updated_at
                 /\ now > props[id[2]].updated_at => props'[id[2]].updated_at > props[id[2]].updated_at]_vars
\* update_item has restamped an item after the clock advanced
UpdatedAtNotEarlierWitness ==
    /\ resp.op = "update_item"
    /\ resp.kind = "doc"
    /\ resp.docs[1].updated_at > resp.docs[1].created_at
    /\ items[ToObjectId(resp.docs[1].id)].updated_at = resp.docs[1].updated_at

\* C17: a successful update_item changes, of the one record whose id matches, only the
\* present fields among title and is_folder (to the values given) and updated_at; its
\* property_id, parent_id and created_at, its fields given as null, every other
\* checklist item and every property record are as they were.
UpdateFrame ==
    [][\A id \in PathStrings :
         (WellFormed(id) /\ Quiescent /\ resp'.op = "update_item" /\ resp'.kind = "doc") =>
            \A f \in ItemPayloads : update_item(id, f) =>
               /\ props' = props
               /\ DOMAIN items' = DOMAIN items
               /\ \A y \in DOMAIN items \ {id[2]} : items'[y] = items[y]
               /\ items'[id[2]].property_id = items[id[2]].property_id
               /\ items'[id[2]].parent_id = items[id[2]].parent_id
               /\ items'[id[2]].created_at = items[id[2]].created_at
               /\ items'[id[2]].title = IF f.title = {} THEN items[id[2]].title ELSE Value(f.title)
               /\ items'[id[2]].is_folder = IF f.is_folder = {} THEN items[id[2]].is_folder ELSE Value(f.is_folder)]_vars
\* update_item has changed is_folder alone on an item under a parent, beside another item
UpdateFrameWitness ==
    /\ resp.op = "update_item"
    /\ resp.kind = "doc"
    /\ resp.docs[1].is_folder
    /\ resp.docs[1].parent_id # Absent
    /\ Cardinality(DOMAIN items) > 1
    /\ DOMAIN props # {}

\* C13: while a delete_item request runs, no item leaves the store while an item that
\* was its transitive descendant when the request started is still stored, and the
\* removal of the target ends the request.
PostOrderDeletion ==
    [][\A s \in Slots : del[s].st = "run" =>
         \A x \in DOMAIN items \ DOMAIN items' :
            /\ Descendants(del[s].items0, x) \cap DOMAIN items = {}
            /\ x = del[s].target => del'[s].st = "idle"]_vars
\* a running delete has removed a grandchild of its target while the child and the
\* target are still stored
PostOrderDeletionWitness ==
    \E s \in Slots :
       /\ del[s].st = "run"
       /\ del[s].target \in DOMAIN items
       /\ \E c \in DOMAIN items, g \in DOMAIN del[s].items0 \ DOMAIN items :
            /\ del[s].items0[c].parent_id = del[s].target
            /\ del[s].items0[g].parent_id = c

\* the item t lies on a parent_id cycle of coll (it is its own parent included)
OnCycle(coll, t) == t \in Descendants(coll, t)
\* C14 as stated: a delete_item request eventually completes unless its target lies on
\* a parent_id cycle; with the target on a cycle the request never completes and no
\* item leaves the store.
DeleteTerminationOrDivergence ==
    /\ \A s \in Slots :
          (del[s].st = "run" /\ ~OnCycle(del[s].items0, del[s].target)) ~> (del[s].st = "idle")
    /\ [][\A s \in Slots : (del[s].st = "run" /\ OnCycle(del[s].items0, del[s].target)) =>
                              (del'[s].st = "run" /\ items' = items)]_vars
\* C14 amended: every delete_item request eventually completes; it is answered 200
\* when its target lies on no parent_id cycle, and when the target lies on a cycle
\* the recursion ends at the recursion limit, the request is answered 500, and
\* every item on a cycle, the target among them, is still stored as it was (items
\* below the target and off the cycle may have left the store).
DeleteTerminationOrOverflow ==
    /\ \A s \in Slots : (del[s].st = "run") ~> (del[s].st = "idle")
    /\ [](last.op = "delete_item" =>
            IF OnCycle(last.items0, last.target)
              THEN /\ resp.status = 500
                   /\ \A x \in DOMAIN last.items0 :
                        OnCycle(last.items0, x) => (x \in DOMAIN items /\ items[x] = last.items0[x])
              ELSE resp.status = 200)
    /\ [](\A s \in Slots : (del[s].st = "run" /\ OnCycle(del[s].items0, del[s].target)) =>
             \A x \in DOMAIN del[s].items0 :
                OnCycle(del[s].items0, x) => (x \in DOMAIN items /\ items[x] = del[s].items0[x]))
\* a delete of an item on a cycle of two items has been answered 500 after a child of
\* the target off the cycle was deleted
DeleteTerminationOrOverflowWitness ==
    /\ last.op = "delete_item"
    /\ resp.status = 500
    /\ OnCycle(last.items0, last.target)
    /\ last.items0[last.target].parent_id # last.target
    /\ DOMAIN items # DOMAIN last.items0

\* the target t and the items below it in coll
Subtree(coll, t) == {t} \cup Descendants(coll, t)
\* neither target is the other or an ancestor of it
Disjoint(coll, t, u) == t # u /\ t \notin Descendants(coll, u) /\ u \notin Descendants(coll, t)
\* the store two overlapping deletes started from: that of the one that started first
Base(d, e) == IF DOMAIN d.items0 \subseteq DOMAIN e.items0 THEN e.items0 ELSE d.items0
\* C15: when two delete_item requests with disjoint target subtrees have run with
\* their store operations interleaved and both have completed, the checklist items
\* are those of before without the two subtrees, each as it was, and the property
\* records are as they were.
DisjointConcurrentDeletes ==
    (Quiescent /\ last.op = "delete_item") =>
        \A d \in done :
           Disjoint(Base(last, d), last.target, d.target) =>
              /\ items = Restrict(Base(last, d),
                                  DOMAIN Base(last, d) \ (Subtree(Base(last, d), last.target)
                                                          \cup Subtree(Base(last, d), d.target)))
              /\ props = last.props0

\* C16: a create_item request under a node of the subtree of a running delete_item
\* of a stored target takes effect between the delete's store operations.  When the
\* delete has completed, the node is gone; an item created under it after the delete
\* had listed the node's children (or removed the node) is still stored with that
\* parent_id, an orphan, and an item created before the listing is deleted with the
\* subtree.
OrphanAfterInterleaving ==
    (Quiescent /\ last.op = "delete_item" /\ resp.status = 200
               /\ last.target \in DOMAIN last.items0) =>
        \A m \in made :
           ToObjectId(m.parent_id) \in Subtree(last.items0, last.target) =>
              /\ ToObjectId(m.parent_id) \notin DOMAIN items
              /\ m.late => /\ m.id \in DOMAIN items
                           /\ items[m.id].parent_id = ToObjectId(m.parent_id)
              /\ ~m.late => m.id \notin DOMAIN items
\* an orphan: stored under a descendant of the target that the delete removed
OrphanAfterInterleavingWitness ==
    /\ Quiescent /\ last.op = "delete_item" /\ resp.status = 200
    /\ last.target \in DOMAIN last.items0
    /\ \E m \in made :
          /\ ToObjectId(m.parent_id) \in Descendants(last.items0, last.target)
          /\ ToObjectId(m.parent_id) \notin DOMAIN items
          /\ m.id \in DOMAIN items
          /\ items[m.id].parent_id = ToObjectId(m.parent_id)

====
